---------------------------- MODULE Spec2Model ----------------------------
(***************************************************************************)
(* wx-sta-agg-influx: the multi-interval wind direction aggregation run.   *)
(*                                                                         *)
(* Three revisions of the engine are in the repository:                    *)
(*   "A"  src/wind_direction.go (unweighted, one batched point stamped at  *)
(*        the end of the window, written by WindDirectionAgg itself);      *)
(*   "B"  src/unnamed/part_001 lines 1-292 (weighted, single VAR cutoff,   *)
(*        one point per interval stamped at the window midpoint, returned  *)
(*        to main, which writes them: src/main.go);                        *)
(*   "C"  src/unnamed/part_001 lines 294-616 (weighted, two cutoffs, one   *)
(*        point per interval stamped at the window midpoint, written by    *)
(*        WindDirectionAgg itself).                                        *)
(*                                                                         *)
(* Units: time in seconds, the mean in whole degrees, the standard         *)
(* deviation and its cutoffs in tenths of a degree (43.5 is 435).          *)
(***************************************************************************)
EXTENDS Integers, Sequences, FiniteSets, TLC

VARIABLES
    rev,            \* the engine revision that runs
    skew,           \* client clock minus the store's clock
    clock,          \* the client's wall clock
    agg,            \* destination series: time -> (field name -> value)
    src,            \* source series: the set of stored samples [t, dir]
    pc,             \* position of the run
    idx,            \* index of the probe loop over allWindDirectionIntervals
    intervalsTodo,  \* the due list built by the probe loop
    now,            \* now := time.Now(), taken after planning
    intervalData,   \* interval -> bucket (sequence of clamped angles)
    fields,         \* interval -> [mean, stdDev, card] computed by the run
    batch,          \* the points handed to Influx.Write
    attempts,       \* calls of Influx.Write made by retry.Do in this run
    result,         \* how the run ended: "none", "ok", "error", "panic"
    probeLog,       \* history: per interval, the response kind and the decision
    lastProbe,      \* history: what the latest probe found in the store, and when
    faults,         \* malformed or failed responses given to this run
    fetchLog,       \* history: the sample fetch of this run
    writeLog,       \* history: the outcome of each write attempt of this run
    aggAtStart,     \* history: the destination series when the run started
    pendingDue,     \* history: intervals found due by a run whose write failed
    runs,           \* number of invocations started
    ticks,          \* number of clock advances
    reports,        \* number of samples the station has added
    tags,           \* the tag map given to NewPoint for the points of the run
    mpc,            \* position of main before it calls the engine
    tagsIn,         \* the -tags flag, a string (sequence of tokens)
    windDirectionField,  \* the -wind-dir-field flag ("" when not given)
    windSpeedField, \* the -wind-speed-field flag ("" when not given)
    pinged,         \* history: the health-check ping went to the store
    qTags,          \* the tags parsed from the -tags flag
    exitAt,         \* the step at which main ended the process ("" if it has not)
    parked          \* the locals of an overlapping invocation that is not running

mainVars == <<mpc, tagsIn, windDirectionField, windSpeedField, pinged, qTags, exitAt>>

vars == <<rev, skew, clock, agg, src, pc, idx, intervalsTodo, now,
          intervalData, fields, batch, attempts, result, probeLog, lastProbe,
          faults, fetchLog, writeLog, aggAtStart, pendingDue, runs, ticks,
          reports, tags, mainVars, parked>>

----------------------------------------------------------------------------
(* Bounds of the model *)

MaxRuns == 2
MaxTicks == 1
MaxReports == 1

\* Responses other than the store's faithful answer that one run is given.
MaxFaults == 1

\* The client clock when the model starts.
T0 == 50000

\* Seconds between the end of one invocation and the start of the next: the
\* max staleness of the 5-minute interval.
RunGaps == {150}

\* Seconds by which the clock advances while a query is on its way.
Ticks == {1}

\* Client clock minus store clock.
Skews == {-60, 0, 60}

\* Ages (by the client clock) of the run that wrote the aggregates present at
\* the start. StaleAges holds every max staleness of the tables, the next
\* second after it, and the two ages of the 5-minute example.
InitAges == {60, 151, 3500}
StaleAges == {60, 61, 150, 151, 180, 300, 301, 600, 601, 1200, 1201,
              2400, 2401, 3600, 3601}

\* Ages (by the store's clock) of the sample present at the start.
InitSampleAges == {10, 290, 1000}

\* Raw angles the station reports.
Angles == {370}

\* Results of the circular statistics library: means in degrees, standard
\* deviations in tenths of a degree. AllStdDevs holds every cutoff of the
\* tables, the value below it and the value above it.
Means == {23}
StdDevs == {300}
AllMeans == {23, 200}
AllStdDevs == {0, 299, 300, 301, 349, 350, 351, 379, 380, 381, 399, 400, 401,
               419, 420, 421, 429, 430, 431, 434, 435, 436, 439, 440, 441,
               449, 450, 451, 459, 460, 461, 464, 465, 466, 499, 500, 501,
               509, 510, 511, 514, 515, 516, 519, 520, 521, 539, 540, 541,
               549, 550, 551, 559, 560, 561, 599, 600, 601}

Revs == {"A", "B", "C"}

----------------------------------------------------------------------------
(* IntervalPolicy *)

wdInterval6h == "6h"
wdInterval3h == "3h"
wdInterval1h == "1h"
wdInterval30m == "30m"
wdInterval15m == "15m"
wdInterval5m == "5m"

allWindDirectionIntervals ==
    <<wdInterval6h, wdInterval3h, wdInterval1h,
      wdInterval30m, wdInterval15m, wdInterval5m>>

Intervals == {allWindDirectionIntervals[k] : k \in 1..Len(allWindDirectionIntervals)}

\* The default branch of the switch panics; no caller passes an unknown
\* identifier, and the model has none.
windDirIntervalToDuration(interval) ==
    CASE interval = wdInterval6h -> 6 * 3600
      [] interval = wdInterval3h -> 3 * 3600
      [] interval = wdInterval1h -> 3600
      [] interval = wdInterval30m -> 30 * 60
      [] interval = wdInterval15m -> 15 * 60
      [] interval = wdInterval5m -> 5 * 60

maxTimeBetweenAggsForWindDirInterval(r, interval) ==
    IF r = "B"
    THEN CASE interval = wdInterval6h -> 20 * 60
           [] interval = wdInterval3h -> 10 * 60
           [] interval = wdInterval1h -> 5 * 60
           [] interval = wdInterval30m -> 2 * 60 + 30
           [] interval = wdInterval15m -> 2 * 60 + 30
           [] interval = wdInterval5m -> 1 * 60
    ELSE CASE interval = wdInterval6h -> 1 * 3600
           [] interval = wdInterval3h -> 40 * 60
           [] interval = wdInterval1h -> 20 * 60
           [] interval = wdInterval30m -> 10 * 60
           [] interval = wdInterval15m -> 5 * 60
           [] interval = wdInterval5m -> 2 * 60 + 30

\* <<max SD for the secondary intercardinal, max SD for the primary
\* intercardinal>>, in tenths of a degree. Revisions A and C.
stdDevThresholdsForWindDirIntervalCardinalResult(r, interval) ==
    IF r = "C"
    THEN CASE interval = wdInterval6h -> <<300, 380>>
           [] interval = wdInterval3h -> <<350, 400>>
           [] interval = wdInterval1h -> <<380, 430>>
           [] interval = wdInterval30m -> <<420, 450>>
           [] interval = wdInterval15m -> <<435, 460>>
           [] interval = wdInterval5m -> <<450, 465>>
    ELSE CASE interval = wdInterval6h -> <<300, 380>>
           [] interval = wdInterval3h -> <<350, 400>>
           [] interval = wdInterval1h -> <<380, 430>>
           [] interval = wdInterval30m -> <<440, 500>>
           [] interval = wdInterval15m -> <<500, 540>>
           [] interval = wdInterval5m -> <<560, 600>>

\* Revision B: the single VAR cutoff, in tenths of a degree.
varThresholdForWindDirInterval(interval) ==
    IF interval = wdInterval6h THEN 600
    ELSE IF interval = wdInterval3h THEN 550
    ELSE IF interval = wdInterval1h THEN 520
    ELSE IF interval = wdInterval30m THEN 515
    ELSE IF interval = wdInterval15m THEN 510
    ELSE 500

\* Field names: WindDirectionField + suffix + interval.
wdMeanResultFieldName(interval) == <<"_mean_", interval>>
wdStdDevResultFieldName(interval) == <<"_stddev_", interval>>
wdMeanIntercardinalResultFieldName(interval) == <<"_mean_intercardinal_", interval>>

\* The store reads the interval identifier in "now()-<interval>" as an
\* InfluxQL duration literal.
InfluxQLDuration(interval) ==
    CASE interval = "6h" -> 6 * 3600
      [] interval = "3h" -> 3 * 3600
      [] interval = "1h" -> 3600
      [] interval = "30m" -> 30 * 60
      [] interval = "15m" -> 15 * 60
      [] interval = "5m" -> 5 * 60


----------------------------------------------------------------------------
(* Caller arguments (flags of main) *)

WindDirectionField == "wind_dir"
WindSpeedField == "wind_speed"

Weighted(r) == r \in {"B", "C"}

----------------------------------------------------------------------------
(* Configuration: the flags of main, ParseTags, the tags of the points *)

ProductName == "wx-station-aggregator-influx"
Version == "<dev>"

\* A string is a sequence of tokens: words, "=" and ",".
\* strings.Split: the pieces of s between the separators, "" (the empty
\* sequence) included; a string without separator is its own single piece.
RECURSIVE Split(_, _)
Split(s, sep) ==
    IF \A k \in 1..Len(s) : s[k] # sep THEN <<s>>
    ELSE LET k == CHOOSE j \in 1..Len(s) :
                    s[j] = sep /\ \A h \in 1..(j - 1) : s[h] # sep
         IN <<SubSeq(s, 1, k - 1)>> \o Split(SubSeq(s, k + 1, Len(s)), sep)

\* The loop of ParseTags over the pieces: a piece that does not split into
\* two parts at "=" is an error; a later tag of the same key replaces the
\* earlier one.
RECURSIVE ParseTagList(_, _)
ParseTagList(pieces, retv) ==
    IF Len(pieces) = 0 THEN [err |-> FALSE, tags |-> retv]
    ELSE LET parts == Split(Head(pieces), "=") IN
         IF Len(parts) # 2 THEN [err |-> TRUE, tags |-> <<>>]
         ELSE ParseTagList(Tail(pieces),
                           (parts[1] :> parts[2]) @@ retv)

ParseTags(str) == ParseTagList(Split(str, ","), <<>>)

\* tags := {"aggregator": ProductName/Version}; maps.Copy(tags, args.Tags):
\* every caller tag is copied over the map, replacing a key already there.
AggregatorKey == <<"aggregator">>
AggregatorIdentity == <<ProductName, "/", Version>>
WriteTags(callerTags) == callerTags @@ (AggregatorKey :> AggregatorIdentity)

\* Values of the -tags flag.
TagStrings ==
    { <<>>,
      <<"station", "=", "north">>,
      <<"station", "=", "north", ",", "aggregator", "=", "mine">>,
      <<"station">>,
      <<"station", "=", "north", ",">> }

\* The flags of an invocation that reaches the engine.
DefaultTagsIn == <<"station", "=", "north">>

----------------------------------------------------------------------------
(* The store's side of a query, and the shapes a response can take *)

MaxOf(S) == CHOOSE m \in S : \A x \in S : x <= m
MinOf(S) == CHOOSE m \in S : \A x \in S : m <= x

RECURSIVE SortAsc(_)
SortAsc(S) == IF S = {} THEN <<>> ELSE <<MinOf(S)>> \o SortAsc(S \ {MinOf(S)})

\* A JSON value of a row as the client decodes it (UseNumber): a string, a
\* json.Number or null; ok says whether the text parses (time.Parse for a
\* string in the time column, Number.Float64 for a number).
TimeCell(t) == [kind |-> "string", ok |-> TRUE, v |-> t]
NumCell(x) == [kind |-> "number", ok |-> TRUE, v |-> x]
BadTimeCell == [kind |-> "string", ok |-> FALSE, v |-> 0]
BadNumCell == [kind |-> "number", ok |-> FALSE, v |-> 0]
StrCell == [kind |-> "string", ok |-> FALSE, v |-> 0]
NullCell == [kind |-> "null", ok |-> FALSE, v |-> 0]

Response(results) == [err |-> FALSE, rerr |-> FALSE, results |-> results]
TransportFailure == [err |-> TRUE, rerr |-> FALSE, results |-> <<>>]
ServerError == [err |-> FALSE, rerr |-> TRUE, results |-> <<>>]
OneSeries(columns, values) == [series |-> <<[columns |-> columns, values |-> values]>>]
NoSeries == [series |-> <<>>]

\* SELECT time, <mean field> FROM <to> WHERE time >= now()-<interval>
\* ORDER BY time DESC LIMIT 1: the times of the stored points that hold the
\* interval's mean field and lie in the range, by the store's clock.
ProbeHits(store, interval, srvNow) ==
    {t \in DOMAIN store :
        /\ wdMeanResultFieldName(interval) \in DOMAIN store[t]
        /\ t >= srvNow - InfluxQLDuration(interval)}

ProbeKindsAlways == {"faithful", "transport", "serverErr", "zeroResults", "twoResults"}
ProbeKindsOfSeries == {"twoSeries", "badFirstColumn", "noColumns", "noRows",
                       "emptyRow", "nullTime", "badTime"}

ProbeKinds(store, interval, srvNow) ==
    ProbeKindsAlways \cup
    (IF ProbeHits(store, interval, srvNow) # {} THEN ProbeKindsOfSeries ELSE {})

ProbeResponse(kind, store, interval, srvNow) ==
    LET hits == ProbeHits(store, interval, srvNow)
        name == wdMeanResultFieldName(interval)
        t == MaxOf(hits)
        row == <<TimeCell(t), NumCell(store[t][name])>>
        cols == <<"time", name>>
        good == IF hits = {} THEN NoSeries ELSE OneSeries(cols, <<row>>)
    IN CASE kind = "faithful" -> Response(<<good>>)
         [] kind = "transport" -> TransportFailure
         [] kind = "serverErr" -> ServerError
         [] kind = "zeroResults" -> Response(<<>>)
         [] kind = "twoResults" -> Response(<<good, good>>)
         [] kind = "twoSeries" -> Response(<<[series |-> good.series \o good.series]>>)
         [] kind = "badFirstColumn" -> Response(<<OneSeries(<<name, "time">>, <<row>>)>>)
         [] kind = "noColumns" -> Response(<<OneSeries(<<>>, <<row>>)>>)
         [] kind = "noRows" -> Response(<<OneSeries(cols, <<>>)>>)
         [] kind = "emptyRow" -> Response(<<OneSeries(cols, << <<>> >>)>>)
         [] kind = "nullTime" -> Response(<<OneSeries(cols, << <<NullCell, row[2]>> >>)>>)
         [] kind = "badTime" -> Response(<<OneSeries(cols, << <<BadTimeCell, row[2]>> >>)>>)

\* SELECT time, <dir>[, <speed>] FROM <from> WHERE time >= now()-<interval>
\* ORDER BY time ASC: the stored samples in the range, oldest first.
FetchHits(samples, interval, srvNow) ==
    {s \in samples : s.t >= srvNow - InfluxQLDuration(interval)}

SampleAt(samples, t) == CHOOSE s \in samples : s.t = t

FetchRows(r, samples, interval, srvNow) ==
    LET hits == FetchHits(samples, interval, srvNow)
        order == SortAsc({s.t : s \in hits})
    IN [k \in 1..Len(order) |->
            IF Weighted(r)
            THEN <<TimeCell(order[k]), NumCell(SampleAt(hits, order[k]).dir), NumCell(1)>>
            ELSE <<TimeCell(order[k]), NumCell(SampleAt(hits, order[k]).dir)>>]

FetchColumns(r) ==
    IF Weighted(r) THEN <<"time", WindDirectionField, WindSpeedField>>
    ELSE <<"time", WindDirectionField>>

FetchKindsAlways == {"faithful", "transport", "serverErr", "zeroResults", "twoResults"}
FetchKindsOfSeries == {"twoSeries", "badFirstColumn", "wrongDirColumn", "noColumns",
                       "oneColumn", "noRows"}
FetchKindsWeighted == {"wrongSpeedColumn", "twoColumns"}
RowDefects == {"badTime", "nullTime", "strDir", "badNumDir", "nullDir", "emptyRow", "oneCell"}
RowDefectsWeighted == {"nullSpeed", "badNumSpeed", "twoCells"}

\* The row with one defect.
Defective(row, defect) ==
    CASE defect = "badTime" -> [row EXCEPT ![1] = BadTimeCell]
      [] defect = "nullTime" -> [row EXCEPT ![1] = NullCell]
      [] defect = "strDir" -> [row EXCEPT ![2] = StrCell]
      [] defect = "badNumDir" -> [row EXCEPT ![2] = BadNumCell]
      [] defect = "nullDir" -> [row EXCEPT ![2] = NullCell]
      [] defect = "emptyRow" -> <<>>
      [] defect = "oneCell" -> <<row[1]>>
      [] defect = "nullSpeed" -> [row EXCEPT ![3] = NullCell]
      [] defect = "badNumSpeed" -> [row EXCEPT ![3] = BadNumCell]
      [] defect = "twoCells" -> <<row[1], row[2]>>

\* The fetch response of a kind; for the kind "rowDefect", the row at
\* position pos carries the defect.
FetchResponse(kind, defect, pos, r, samples, interval, srvNow) ==
    LET rows == FetchRows(r, samples, interval, srvNow)
        cols == FetchColumns(r)
        good == IF Len(rows) = 0 THEN NoSeries ELSE OneSeries(cols, rows)
    IN CASE kind = "faithful" -> Response(<<good>>)
         [] kind = "transport" -> TransportFailure
         [] kind = "serverErr" -> ServerError
         [] kind = "zeroResults" -> Response(<<>>)
         [] kind = "twoResults" -> Response(<<good, good>>)
         [] kind = "twoSeries" -> Response(<<[series |-> good.series \o good.series]>>)
         [] kind = "badFirstColumn" ->
                Response(<<OneSeries([cols EXCEPT ![1] = cols[2], ![2] = cols[1]], rows)>>)
         [] kind = "wrongDirColumn" ->
                Response(<<OneSeries([cols EXCEPT ![2] = "other"], rows)>>)
         [] kind = "wrongSpeedColumn" ->
                Response(<<OneSeries([cols EXCEPT ![3] = "other"], rows)>>)
         [] kind = "noColumns" -> Response(<<OneSeries(<<>>, rows)>>)
         [] kind = "oneColumn" -> Response(<<OneSeries(<<"time">>, rows)>>)
         [] kind = "twoColumns" -> Response(<<OneSeries(<<"time", WindDirectionField>>, rows)>>)
         [] kind = "noRows" -> Response(<<OneSeries(cols, <<>>)>>)
         [] kind = "rowDefect" ->
                Response(<<OneSeries(cols, [rows EXCEPT ![pos] = Defective(rows[pos], defect)])>>)


----------------------------------------------------------------------------
(* StalenessPlanner: one probe of the loop over allWindDirectionIntervals *)

\* The time a stored point stands for: its own time (A), or its time plus
\* half the window (B, C: t.Add(windDirIntervalToDuration(interval)/2)).
ReferenceTime(r, t, interval) ==
    IF r = "A" THEN t ELSE t + (windDirIntervalToDuration(interval) \div 2)

IsStaleAtOrAbove(r, t, interval, clientNow) ==
    clientNow - ReferenceTime(r, t, interval) >= maxTimeBetweenAggsForWindDirInterval(r, interval)

IsStaleInverted(r, t, interval, clientNow) ==
    clientNow - ReferenceTime(r, t, interval) < maxTimeBetweenAggsForWindDirInterval(r, interval)

\* time.Since(reference) > maxTimeBetweenAggsForWindDirInterval(interval)
IsStale(r, t, interval, clientNow) ==
    clientNow - ReferenceTime(r, t, interval) > maxTimeBetweenAggsForWindDirInterval(r, interval)

\* What the probe loop's body does with a response: "due" (append to
\* intervalsTodo), "skip", "error" (return an error) or "panic" (an index out
\* of range, or a failed single-value type assertion).
ProbeOutcome(r, resp, interval, clientNow) ==
    IF resp.err THEN "error"
    ELSE IF resp.rerr THEN "error"
    ELSE IF Len(resp.results) = 0 \/ Len(resp.results[1].series) = 0 THEN "due"
    ELSE IF Len(resp.results) > 1 THEN "error"
    ELSE IF Len(resp.results[1].series) > 1 THEN "error"
    ELSE LET series == resp.results[1].series[1] IN
         IF Len(series.columns) < 1 THEN "panic"
         ELSE IF series.columns[1] # "time" THEN "error"
         ELSE IF Len(series.values) < 1 THEN "panic"
         ELSE IF Len(series.values[1]) < 1 THEN "panic"
         ELSE IF series.values[1][1].kind # "string" THEN "panic"
         ELSE IF ~series.values[1][1].ok THEN "error"
         ELSE IF IsStale(r, series.values[1][1].v, interval, clientNow) THEN "due"
         ELSE "skip"

----------------------------------------------------------------------------
(* SampleFetcher and WindowBucketer *)

FetchIntervalLast(todo) == todo[Len(todo)]

\* intervalsTodo[0], the range of the fetch query.
FetchInterval(todo) == todo[1]

\* Degree.Clamped of the statistics library: the angle reduced into [0, 360).
Clamped(deg) == deg % 360

\* One row of the parse loop: "ok", "error" or "panic". Revision A reads the
\* time and then the angle; B and C read the angle, the speed and then the time.
RowStatus(r, row) ==
    IF Weighted(r)
    THEN IF Len(row) < 2 THEN "panic"
         ELSE IF row[2].kind # "number" THEN "panic"
         ELSE IF ~row[2].ok THEN "error"
         ELSE IF Len(row) < 3 THEN "panic"
         ELSE IF row[3].kind # "number" THEN "panic"
         ELSE IF ~row[3].ok THEN "error"
         ELSE IF row[1].kind # "string" THEN "panic"
         ELSE IF ~row[1].ok THEN "error"
         ELSE "ok"
    ELSE IF Len(row) < 1 THEN "panic"
         ELSE IF row[1].kind # "string" THEN "panic"
         ELSE IF ~row[1].ok THEN "error"
         ELSE IF Len(row) < 2 THEN "panic"
         ELSE IF row[2].kind # "number" THEN "panic"
         ELSE IF ~row[2].ok THEN "error"
         ELSE "ok"

\* The loop stops at the first row that does not parse.
RECURSIVE RowsStatus(_, _)
RowsStatus(r, rows) ==
    IF Len(rows) = 0 THEN "ok"
    ELSE IF RowStatus(r, Head(rows)) # "ok" THEN RowStatus(r, Head(rows))
    ELSE RowsStatus(r, Tail(rows))

InWindowStrict(nowv, t, interval) == nowv - t < windDirIntervalToDuration(interval)

\* now.Sub(t) <= windDirIntervalToDuration(interval)
InWindow(nowv, t, interval) == nowv - t <= windDirIntervalToDuration(interval)

\* What the row contributes to a bucket: the clamped angle (A), or the data
\* point of clamped angle and speed (B, C).
DataPoint(r, row) ==
    IF Weighted(r) THEN [dir |-> Clamped(row[2].v), spd |-> row[3].v]
    ELSE Clamped(row[2].v)

Bucket(r, rows, nowv, interval) ==
    LET sel == SelectSeq(rows, LAMBDA row : InWindow(nowv, row[1].v, interval))
    IN [k \in 1..Len(sel) |-> DataPoint(r, sel[k])]

SeqToSet(q) == {q[k] : k \in 1..Len(q)}

\* Validation of the fetch response and the parse loop: "nodata" (return
\* nil), "error", "panic", or "data" with the buckets of the due intervals.
FetchOutcome(r, resp, todo, nowv) ==
    IF resp.err THEN [out |-> "error"]
    ELSE IF resp.rerr THEN [out |-> "error"]
    ELSE IF Len(resp.results) = 0 \/ Len(resp.results[1].series) = 0 THEN [out |-> "nodata"]
    ELSE IF Len(resp.results) > 1 THEN [out |-> "error"]
    ELSE IF Len(resp.results[1].series) > 1 THEN [out |-> "error"]
    ELSE LET series == resp.results[1].series[1] IN
         IF Len(series.columns) < 1 THEN [out |-> "panic"]
         ELSE IF series.columns[1] # "time" THEN [out |-> "error"]
         ELSE IF Len(series.columns) < 2 THEN [out |-> "panic"]
         ELSE IF series.columns[2] # WindDirectionField THEN [out |-> "error"]
         ELSE IF Weighted(r) /\ Len(series.columns) < 3 THEN [out |-> "panic"]
         ELSE IF Weighted(r) /\ series.columns[3] # WindSpeedField THEN [out |-> "error"]
         ELSE IF RowsStatus(r, series.values) # "ok"
              THEN [out |-> RowsStatus(r, series.values)]
         ELSE [out |-> "data",
               intervalData |-> [i \in SeqToSet(todo) |-> Bucket(r, series.values, nowv, i)]]

----------------------------------------------------------------------------
(* CircularAggregator *)

Compass8 == <<"N", "NE", "E", "SE", "S", "SW", "W", "NW">>
Compass16 == <<"N", "NNE", "NE", "ENE", "E", "ESE", "SE", "SSE",
               "S", "SSW", "SW", "WSW", "W", "WNW", "NW", "NNW">>

\* DirectionStr of the statistics library: precision 1 is the 8-point compass
\* (sectors of 45 degrees), precision 2 the 16-point one (22.5 degrees).
DirectionStr(deg, precision) ==
    IF precision = 1 THEN Compass8[(((2 * deg + 45) \div 90) % 8) + 1]
    ELSE Compass16[(((4 * deg + 45) \div 90) % 16) + 1]

CardinalAtOrAbove(r, interval, mean, stdDev) ==
    IF r = "B"
    THEN IF stdDev < varThresholdForWindDirInterval(interval)
         THEN DirectionStr(mean, 2) ELSE "VAR"
    ELSE LET th == stdDevThresholdsForWindDirIntervalCardinalResult(r, interval) IN
         IF stdDev >= th[2] THEN "VAR"
         ELSE IF stdDev >= th[1] THEN DirectionStr(mean, 1)
         ELSE DirectionStr(mean, 2)

\* The classification label of a bucket's mean and standard deviation.
Cardinal(r, interval, mean, stdDev) ==
    IF r = "B"
    THEN IF stdDev < varThresholdForWindDirInterval(interval)
         THEN DirectionStr(mean, 2) ELSE "VAR"
    ELSE LET th == stdDevThresholdsForWindDirIntervalCardinalResult(r, interval) IN
         IF stdDev > th[2] THEN "VAR"
         ELSE IF stdDev > th[1] THEN DirectionStr(mean, 1)
         ELSE DirectionStr(mean, 2)

\* The three fields of one interval.
IntervalFields(r, interval, mean, stdDev) ==
    (wdMeanResultFieldName(interval) :> mean)
    @@ (wdStdDevResultFieldName(interval) :> stdDev)
    @@ (wdMeanIntercardinalResultFieldName(interval) :> Cardinal(r, interval, mean, stdDev))

SkipsEmptyNever(data, interval) == FALSE

\* if len(intervalData[interval]) == 0 { continue }
SkipsEmpty(data, interval) == Len(data[interval]) = 0

\* The loop over intervalsTodo that fills the field map; the library's mean
\* and standard deviation are those of this run's samples.
RECURSIVE ComputeFields(_, _, _, _, _)
ComputeFields(r, todo, data, mean, stdDev) ==
    IF Len(todo) = 0 THEN <<>>
    ELSE IF SkipsEmpty(data, Head(todo))
         THEN ComputeFields(r, Tail(todo), data, mean, stdDev)
         ELSE IntervalFields(r, Head(todo), mean, stdDev)
              @@ ComputeFields(r, Tail(todo), data, mean, stdDev)

\* The time stamped on an interval's point: now (A), or
\* now.Add(-1*windDirIntervalToDuration(interval)/2) (B, C).
PointTime(r, nowv, interval) ==
    IF r = "A" THEN nowv ELSE nowv - (windDirIntervalToDuration(interval) \div 2)

\* The points of the run: one point of all fields (A), or one point per
\* interval with a non-empty bucket (B, C).
RECURSIVE IntervalPoints(_, _, _, _, _, _)
IntervalPoints(r, todo, data, mean, stdDev, nowv) ==
    IF Len(todo) = 0 THEN <<>>
    ELSE IF SkipsEmpty(data, Head(todo))
         THEN IntervalPoints(r, Tail(todo), data, mean, stdDev, nowv)
         ELSE <<[time |-> PointTime(r, nowv, Head(todo)),
                 fields |-> IntervalFields(r, Head(todo), mean, stdDev)]>>
              \o IntervalPoints(r, Tail(todo), data, mean, stdDev, nowv)

\* influxdb.NewPoint refuses a point without fields.
NewPointFails(fieldMap) == DOMAIN fieldMap = {}

----------------------------------------------------------------------------
(* AggregateWriter and the destination store *)

influxWriteRetries == 2

\* A point written to the store: the fields of a point at the same time (and
\* series) are overwritten, its other fields kept.
ApplyPoint(store, point) ==
    IF point.time \in DOMAIN store
    THEN [store EXCEPT ![point.time] = point.fields @@ store[point.time]]
    ELSE (point.time :> point.fields) @@ store

RECURSIVE ApplyPoints(_, _)
ApplyPoints(store, points) ==
    IF Len(points) = 0 THEN store
    ELSE ApplyPoints(ApplyPoint(store, Head(points)), Tail(points))

\* An attempt is acknowledged ("ok"), refused ("fail": nothing applied),
\* applied without the acknowledgement reaching the client ("lost"), or
\* refused after the store has applied the first points of the batch
\* ("partial").
WriteOutcomes == {"ok", "fail", "lost", "partial"}

\* The outcomes of a store that applies a batch as a whole or not at all.
WholeOutcomes == {"ok", "fail", "lost"}

\* What the store has applied of the points of an attempt.
AppliedPoints(outcome, points) ==
    IF outcome \in {"ok", "lost"} THEN points
    ELSE IF outcome = "partial" THEN SubSeq(points, 1, Len(points) - 1)
    ELSE <<>>

AttemptsSpentLate(n) == n > influxWriteRetries

\* retry.Attempts(influxWriteRetries): no further call after n attempts.
AttemptsSpent(n) == n >= influxWriteRetries

ResultAfterFailedWriteReturned == "error"

\* retry.Do returned an error: it is logged, and the run returns nil.
ResultAfterFailedWrite == "ok"

NoIntervalsTodoNever(todo) == FALSE

\* len(intervalsTodo) == 0
NoIntervalsTodo(todo) == Len(todo) = 0


----------------------------------------------------------------------------
(* The state machine *)

NoProbe == [kind |-> "none", out |-> "none"]
NoLastProbe == [interval |-> "none", found |-> FALSE, t |-> 0, at |-> 0]
NoFetch == [count |-> 0, interval |-> "none", kind |-> "none", defect |-> "none",
            rows |-> 0, out |-> "none"]

\* The destination series after a run at client time ranAt that aggregated
\* every interval (mean 0, standard deviation 0).
AllData == [i \in Intervals |-> <<0>>]
PriorPoints(r, ranAt) ==
    IF r = "A"
    THEN <<[time |-> ranAt,
            fields |-> ComputeFields(r, allWindDirectionIntervals, AllData, 0, 0)]>>
    ELSE IntervalPoints(r, allWindDirectionIntervals, AllData, 0, 0, ranAt)

InitStores(r, ages) == {<<>>} \cup {ApplyPoints(<<>>, PriorPoints(r, T0 - a)) : a \in ages}
InitSources(sk, ages) == {{}} \cup {{[t |-> T0 - sk - b, dir |-> 350]} : b \in ages}

\* The locals of an invocation that has not started.
IdleLocals(store, tagMap) ==
    [pc |-> "idle", idx |-> 1, intervalsTodo |-> <<>>, now |-> 0,
     intervalData |-> <<>>, fields |-> <<>>, batch |-> <<>>, tags |-> tagMap,
     attempts |-> 0, result |-> "none",
     probeLog |-> [i \in Intervals |-> NoProbe], lastProbe |-> NoLastProbe,
     faults |-> 0, fetchLog |-> NoFetch, writeLog |-> <<>>, aggAtStart |-> store]

\* The tag map main hands to the engine as args.WriteTags (B); A and C build
\* theirs in WindDirectionAgg.
ArgsWriteTags(r, callerTags) == IF r = "B" THEN WriteTags(callerTags) ELSE <<>>

InitRun(storeAges, sampleAges) ==
    /\ rev \in Revs
    /\ skew \in Skews
    /\ clock = T0
    /\ agg \in InitStores(rev, storeAges)
    /\ src \in InitSources(skew, sampleAges)
    /\ pc = "idle"
    /\ idx = 1
    /\ intervalsTodo = <<>>
    /\ now = 0
    /\ intervalData = <<>>
    /\ fields = <<>>
    /\ batch = <<>>
    /\ attempts = 0
    /\ result = "none"
    /\ probeLog = [i \in Intervals |-> NoProbe]
    /\ lastProbe = NoLastProbe
    /\ faults = 0
    /\ fetchLog = NoFetch
    /\ writeLog = <<>>
    /\ aggAtStart = agg
    /\ pendingDue = {}
    /\ runs = 0
    /\ ticks = 0
    /\ reports = 0

\* main has parsed its flags, pinged the store and calls the engine.
InitWith(storeAges, sampleAges) ==
    /\ InitRun(storeAges, sampleAges)
    /\ mpc = "engine"
    /\ tagsIn = DefaultTagsIn
    /\ windDirectionField = WindDirectionField
    /\ windSpeedField = IF rev = "A" THEN "" ELSE WindSpeedField
    /\ pinged = TRUE
    /\ qTags = ParseTags(tagsIn).tags
    /\ exitAt = ""
    /\ tags = ArgsWriteTags(rev, qTags)
    /\ parked = IdleLocals(agg, tags)

Init == InitWith(InitAges, InitSampleAges)

\* The program is invoked (by its scheduler); a run is in progress until it
\* returns, fails or panics.
StartRun ==
    /\ pc \in {"idle", "done"}
    /\ runs < MaxRuns
    /\ runs' = runs + 1
    /\ \E gap \in (IF pc = "idle" THEN {0} ELSE RunGaps) : clock' = clock + gap
    /\ pc' = "probe"
    /\ idx' = 1
    /\ intervalsTodo' = <<>>
    /\ now' = 0
    /\ intervalData' = <<>>
    /\ fields' = <<>>
    /\ batch' = <<>>
    /\ attempts' = 0
    /\ result' = "none"
    /\ probeLog' = [i \in Intervals |-> NoProbe]
    /\ lastProbe' = NoLastProbe
    /\ faults' = 0
    /\ fetchLog' = NoFetch
    /\ writeLog' = <<>>
    /\ aggAtStart' = agg
    /\ tags' = ArgsWriteTags(rev, qTags)
    /\ UNCHANGED <<mainVars, parked>>
    /\ UNCHANGED <<rev, skew, agg, src, pendingDue, ticks, reports>>

\* One iteration of the probe loop: the query, its validation, the decision.
\* kinds: the response kinds the store may give.
Probe(kinds) ==
    /\ pc = "probe"
    /\ LET interval == allWindDirectionIntervals[idx]
           srvNow == clock - skew
           hits == ProbeHits(agg, interval, srvNow)
       IN \E kind \in ProbeKinds(agg, interval, srvNow) \cap kinds :
            LET resp == ProbeResponse(kind, agg, interval, srvNow)
                out == ProbeOutcome(rev, resp, interval, clock)
            IN /\ kind # "faithful" => faults < MaxFaults
               /\ faults' = IF kind = "faithful" THEN faults ELSE faults + 1
               /\ probeLog' = [probeLog EXCEPT ![interval] = [kind |-> kind, out |-> out]]
               /\ lastProbe' = [interval |-> interval, found |-> hits # {},
                                t |-> IF hits = {} THEN 0 ELSE MaxOf(hits),
                                at |-> clock]
               /\ IF out \in {"error", "panic"}
                  THEN /\ pc' = "done"
                       /\ result' = out
                       /\ UNCHANGED <<idx, intervalsTodo>>
                  ELSE /\ intervalsTodo' = IF out = "due"
                                           THEN Append(intervalsTodo, interval)
                                           ELSE intervalsTodo
                       /\ idx' = idx + 1
                       /\ pc' = IF idx = Len(allWindDirectionIntervals) THEN "plan" ELSE "probe"
                       /\ UNCHANGED result
    /\ UNCHANGED <<tags, mainVars, parked>>
    /\ UNCHANGED <<rev, skew, clock, agg, src, now, intervalData, fields, batch,
                   attempts, fetchLog, writeLog, aggAtStart, pendingDue, runs,
                   ticks, reports>>

\* After the loop: nothing to do, or now := time.Now().
Plan ==
    /\ pc = "plan"
    /\ IF NoIntervalsTodo(intervalsTodo)
       THEN /\ pc' = "done"
            /\ result' = "ok"
            /\ UNCHANGED now
       ELSE /\ pc' = "fetch"
            /\ now' = clock
            /\ UNCHANGED result
    /\ UNCHANGED <<tags, mainVars, parked>>
    /\ UNCHANGED <<rev, skew, clock, agg, src, idx, intervalsTodo, intervalData,
                   fields, batch, attempts, probeLog, lastProbe, faults, fetchLog,
                   writeLog, aggAtStart, pendingDue, runs, ticks, reports>>

\* The responses the fetch can get: <<kind, defect, position>>.
FetchChoices(r, samples, interval, srvNow) ==
    LET n == Len(FetchRows(r, samples, interval, srvNow))
    IN {<<k, "none", 0>> : k \in FetchKindsAlways}
       \cup (IF n = 0 THEN {}
             ELSE {<<k, "none", 0>> : k \in FetchKindsOfSeries}
                  \cup {<<"rowDefect", d, p>> : d \in RowDefects, p \in 1..n}
                  \cup (IF Weighted(r)
                        THEN {<<k, "none", 0>> : k \in FetchKindsWeighted}
                             \cup {<<"rowDefect", d, p>> : d \in RowDefectsWeighted, p \in 1..n}
                        ELSE {}))

\* The sample query, its validation, the parse loop and the bucketing.
\* faulty: whether the store may give a response other than the faithful one.
Fetch(faulty) ==
    /\ pc = "fetch"
    /\ IF Len(intervalsTodo) = 0
       THEN /\ pc' = "done"
            /\ result' = "panic"
            /\ UNCHANGED <<intervalData, fetchLog, faults>>
       ELSE LET interval == FetchInterval(intervalsTodo)
                srvNow == clock - skew
            IN \E c \in FetchChoices(rev, src, interval, srvNow) :
                 LET resp == FetchResponse(c[1], c[2], c[3], rev, src, interval, srvNow)
                     o == FetchOutcome(rev, resp, intervalsTodo, now)
                 IN /\ c[1] # "faithful" => faulty /\ faults < MaxFaults
                    /\ faults' = IF c[1] = "faithful" THEN faults ELSE faults + 1
                    /\ fetchLog' = [count |-> fetchLog.count + 1, interval |-> interval,
                                    kind |-> c[1], defect |-> c[2],
                                    rows |-> Len(FetchRows(rev, src, interval, srvNow)),
                                    out |-> o.out]
                    /\ IF o.out = "data"
                       THEN /\ intervalData' = o.intervalData
                            /\ pc' = "aggregate"
                            /\ UNCHANGED result
                       ELSE /\ pc' = "done"
                            /\ result' = IF o.out = "nodata" THEN "ok" ELSE o.out
                            /\ UNCHANGED intervalData
    /\ UNCHANGED <<tags, mainVars, parked>>
    /\ UNCHANGED <<rev, skew, clock, agg, src, idx, intervalsTodo, now, fields,
                   batch, attempts, probeLog, lastProbe, writeLog, aggAtStart,
                   pendingDue, runs, ticks, reports>>

\* The aggregation loop and the construction of the points. A: the run fails
\* when NewPoint refuses the point. B: the points go back to main, which
\* returns when there are none. C: the batch is written, even if empty.
\* means, stdDevs: the results the statistics library may give. The weighted
\* functions of the library also return an error, for weights the store's
\* rows here never carry (every stored speed is positive).
Aggregate(means, stdDevs) ==
    /\ pc = "aggregate"
    /\ \E mean \in means, stdDev \in stdDevs :
         LET fieldMap == ComputeFields(rev, intervalsTodo, intervalData, mean, stdDev)
             points == IF rev = "A"
                       THEN <<[time |-> PointTime(rev, now, Head(intervalsTodo)),
                               fields |-> fieldMap]>>
                       ELSE IntervalPoints(rev, intervalsTodo, intervalData, mean, stdDev, now)
         IN /\ fields' = fieldMap
            /\ tags' = IF rev = "B" THEN tags ELSE WriteTags(qTags)
            /\ IF rev = "A" /\ NewPointFails(fieldMap)
               THEN /\ pc' = "done"
                    /\ result' = "error"
                    /\ UNCHANGED batch
               ELSE IF rev = "B" /\ Len(points) = 0
               THEN /\ pc' = "done"
                    /\ result' = "ok"
                    /\ UNCHANGED batch
               ELSE /\ pc' = "write"
                    /\ batch' = points
                    /\ UNCHANGED result
    /\ UNCHANGED <<mainVars, parked>>
    /\ UNCHANGED <<rev, skew, clock, agg, src, idx, intervalsTodo, now, intervalData,
                   attempts, probeLog, lastProbe, faults, fetchLog, writeLog,
                   aggAtStart, pendingDue, runs, ticks, reports>>

\* One call of Influx.Write by retry.Do, and what retry.Do does next.
\* outcomes: what the store may do with the batch.
WriteAttempt(outcomes) ==
    /\ pc = "write"
    /\ \E outcome \in outcomes :
         LET last == AttemptsSpent(attempts + 1)
             applied == outcome # "fail"
             log == Append(writeLog, outcome)
         IN /\ outcome = "partial" => Len(batch) > 1
            /\ attempts' = attempts + 1
            /\ writeLog' = log
            /\ agg' = ApplyPoints(agg, AppliedPoints(outcome, batch))
            /\ IF outcome = "ok"
               THEN /\ pc' = "done"
                    /\ result' = "ok"
               ELSE IF last
               THEN /\ pc' = "done"
                    /\ result' = ResultAfterFailedWrite
               ELSE /\ pc' = "write"
                    /\ UNCHANGED result
            /\ pendingDue' =
                 IF applied /\ agg' # agg THEN {}
                 ELSE IF last /\ \A k \in 1..Len(log) : log[k] = "fail"
                 THEN {i \in SeqToSet(intervalsTodo) : probeLog[i].kind = "faithful"}
                 ELSE pendingDue
    /\ UNCHANGED <<tags, mainVars, parked>>
    /\ UNCHANGED <<rev, skew, clock, src, idx, intervalsTodo, now, intervalData,
                   fields, batch, probeLog, lastProbe, faults, fetchLog, aggAtStart,
                   runs, ticks, reports>>

\* The station reports between invocations (as long as one is still to come)
\* and while the sample query is on its way to the store.
EnvironmentMayAct == pc = "fetch" \/ (pc = "done" /\ runs < MaxRuns)

\* Time passes while the sample query is on its way to the store, after
\* now := time.Now(); the probe loop, the aggregation and the write are taken
\* to run at one reading of the clock.
Tick ==
    /\ pc = "fetch"
    /\ ticks < MaxTicks
    /\ \E d \in Ticks : clock' = clock + d
    /\ ticks' = ticks + 1
    /\ UNCHANGED <<tags, mainVars, parked>>
    /\ UNCHANGED <<rev, skew, agg, src, pc, idx, intervalsTodo, now, intervalData,
                   fields, batch, attempts, result, probeLog, lastProbe, faults,
                   fetchLog, writeLog, aggAtStart, pendingDue, runs, reports>>

\* The weather station stores a sample, stamped by the store's clock.
StationReport ==
    /\ EnvironmentMayAct
    /\ reports < MaxReports
    /\ \A s \in src : s.t # clock - skew
    /\ \E a \in Angles : src' = src \cup {[t |-> clock - skew, dir |-> a]}
    /\ reports' = reports + 1
    /\ UNCHANGED <<tags, mainVars, parked>>
    /\ UNCHANGED <<rev, skew, clock, agg, pc, idx, intervalsTodo, now, intervalData,
                   fields, batch, attempts, result, probeLog, lastProbe, faults,
                   fetchLog, writeLog, aggAtStart, pendingDue, runs, ticks>>

AllProbeKinds == ProbeKindsAlways \cup ProbeKindsOfSeries

\* Successive invocations against a store that answers every query faithfully.
Next ==
    \/ StartRun
    \/ Probe({"faithful"})
    \/ Plan
    \/ Fetch(FALSE)
    \/ Aggregate(Means, StdDevs)
    \/ WriteAttempt(WholeOutcomes)
    \/ Tick
    \/ StationReport

Spec == Init /\ [][Next]_vars

\* One invocation against a store whose responses may fail or be malformed.
FirstRun == runs = 0 /\ StartRun

NextFaults ==
    \/ FirstRun
    \/ Probe(AllProbeKinds)
    \/ Plan
    \/ Fetch(TRUE)
    \/ Aggregate(Means, StdDevs)
    \/ WriteAttempt(WriteOutcomes)
    \/ Tick
    \/ StationReport

SpecFaults == Init /\ [][NextFaults]_vars

\* The planner over every age of the stored aggregates, no samples stored.
InitStale == InitWith(StaleAges, {})

NextStale ==
    \/ StartRun
    \/ Probe({"faithful"})
    \/ Plan
    \/ Fetch(FALSE)
    \/ Tick

SpecStale == InitStale /\ [][NextStale]_vars

\* The aggregator over every result of the statistics library, from an empty
\* destination series.
InitCardinal == InitWith({}, {10})

NextCardinal ==
    \/ FirstRun
    \/ Probe({"faithful"})
    \/ Plan
    \/ Fetch(FALSE)
    \/ Aggregate(AllMeans, AllStdDevs)
    \/ WriteAttempt(WholeOutcomes)

SpecCardinal == InitCardinal /\ [][NextCardinal]_vars

\* One invocation against a store that answers every query faithfully and may
\* apply a part of a batch it refuses.
NextWrite ==
    \/ FirstRun
    \/ Probe({"faithful"})
    \/ Plan
    \/ Fetch(FALSE)
    \/ Aggregate(Means, StdDevs)
    \/ WriteAttempt(WriteOutcomes)

SpecWrite == Init /\ [][NextWrite]_vars

\* The locals of the invocation that is taking its steps.
Locals ==
    [pc |-> pc, idx |-> idx, intervalsTodo |-> intervalsTodo, now |-> now,
     intervalData |-> intervalData, fields |-> fields, batch |-> batch,
     tags |-> tags, attempts |-> attempts, result |-> result,
     probeLog |-> probeLog, lastProbe |-> lastProbe, faults |-> faults,
     fetchLog |-> fetchLog, writeLog |-> writeLog, aggAtStart |-> aggAtStart]

\* Two invocations of the program (two processes) share nothing but the
\* store: WindDirectionAgg takes no lock. The scheduler of the host passes
\* from one process to the other between two of their calls to the store.
Switch ==
    /\ pc # "idle" \/ parked.pc # "idle"
    /\ ~(pc = "done" /\ parked.pc = "done")
    /\ parked' = Locals
    /\ pc' = parked.pc
    /\ idx' = parked.idx
    /\ intervalsTodo' = parked.intervalsTodo
    /\ now' = parked.now
    /\ intervalData' = parked.intervalData
    /\ fields' = parked.fields
    /\ batch' = parked.batch
    /\ tags' = parked.tags
    /\ attempts' = parked.attempts
    /\ result' = parked.result
    /\ probeLog' = parked.probeLog
    /\ lastProbe' = parked.lastProbe
    /\ faults' = parked.faults
    /\ fetchLog' = parked.fetchLog
    /\ writeLog' = parked.writeLog
    /\ aggAtStart' = parked.aggAtStart
    /\ UNCHANGED mainVars
    /\ UNCHANGED <<rev, skew, clock, agg, src, pendingDue, runs, ticks, reports>>

\* An invocation starts while the other may still be running.
StartOverlapping == pc = "idle" /\ StartRun

\* Two overlapping invocations, every query answered faithfully.
InitOverlap == InitWith({151}, {10, 290})

NextOverlap ==
    \/ StartOverlapping
    \/ Switch
    \/ Probe({"faithful"})
    \/ Plan
    \/ Fetch(FALSE)
    \/ Aggregate(Means, StdDevs)
    \/ WriteAttempt(WriteOutcomes)
    \/ Tick

SpecOverlap == InitOverlap /\ [][NextOverlap]_vars

\* main, from the parsed flags to the call of the engine, then one run. The
\* revisions whose main is in the repository: A and B.
InitMain ==
    /\ InitRun({151}, {10})
    /\ rev \in {"A", "B"}
    /\ mpc = "start"
    /\ tagsIn \in TagStrings
    /\ windDirectionField \in {"", WindDirectionField}
    /\ windSpeedField \in (IF rev = "A" THEN {""} ELSE {"", WindSpeedField})
    /\ pinged = FALSE
    /\ qTags = <<>>
    /\ exitAt = ""
    /\ tags = <<>>
    /\ parked = IdleLocals(agg, <<>>)

\* influxdb.NewHTTPClient and influxHealthcheck: the ping goes to the store;
\* log.Fatalf when it fails.
Healthcheck ==
    /\ mpc = "start"
    /\ pinged' = TRUE
    /\ \E ok \in BOOLEAN :
         /\ mpc' = IF ok THEN "parse" ELSE "exit"
         /\ exitAt' = IF ok THEN "" ELSE "ping"
    /\ UNCHANGED <<rev, skew, clock, agg, src, pc, idx, intervalsTodo, now,
                   intervalData, fields, batch, attempts, result, probeLog,
                   lastProbe, faults, fetchLog, writeLog, aggAtStart, pendingDue,
                   runs, ticks, reports, tags, tagsIn, windDirectionField,
                   windSpeedField, qTags, parked>>

\* ParseTags(*tagsIn), log.Fatalf on its error; in B, wTags is built here.
ParseFlagTags ==
    /\ mpc = "parse"
    /\ LET r == ParseTags(tagsIn) IN
         IF r.err
         THEN /\ mpc' = "exit"
              /\ exitAt' = "tags"
              /\ UNCHANGED <<qTags, tags>>
         ELSE /\ mpc' = "validate"
              /\ qTags' = r.tags
              /\ tags' = ArgsWriteTags(rev, r.tags)
              /\ UNCHANGED exitAt
    /\ UNCHANGED <<rev, skew, clock, agg, src, pc, idx, intervalsTodo, now,
                   intervalData, fields, batch, attempts, result, probeLog,
                   lastProbe, faults, fetchLog, writeLog, aggAtStart, pendingDue,
                   runs, ticks, reports, tagsIn, windDirectionField,
                   windSpeedField, pinged, parked>>

\* B: wind-speed-field is required when wind-dir-field is set. Without
\* wind-dir-field nothing is aggregated and main returns.
ValidateFields ==
    /\ mpc = "validate"
    /\ IF rev = "B" /\ windDirectionField # "" /\ windSpeedField = ""
       THEN mpc' = "exit" /\ exitAt' = "fields"
       ELSE IF windDirectionField = ""
       THEN mpc' = "exit" /\ exitAt' = "return"
       ELSE mpc' = "engine" /\ UNCHANGED exitAt
    /\ UNCHANGED <<rev, skew, clock, agg, src, pc, idx, intervalsTodo, now,
                   intervalData, fields, batch, attempts, result, probeLog,
                   lastProbe, faults, fetchLog, writeLog, aggAtStart, pendingDue,
                   runs, ticks, reports, tags, tagsIn, windDirectionField,
                   windSpeedField, pinged, qTags, parked>>

\* main calls WindDirectionAgg.
EngineRun == mpc = "engine" /\ FirstRun

NextMain ==
    \/ Healthcheck
    \/ ParseFlagTags
    \/ ValidateFields
    \/ EngineRun
    \/ Probe({"faithful"})
    \/ Plan
    \/ Fetch(FALSE)
    \/ Aggregate(Means, StdDevs)
    \/ WriteAttempt(WholeOutcomes)

SpecMain == InitMain /\ [][NextMain]_vars

----------------------------------------------------------------------------
(* Properties *)

Elapsed(r, p) == p.at - ReferenceTime(r, p.t, p.interval)

\* C1: an interval is marked due exactly when the probe finds no prior point
\* within the last interval-duration, or the time elapsed since the most
\* recent point's reference time is strictly greater than the interval's max
\* staleness; otherwise it is not due. For the 5-minute interval (max
\* staleness 2m30s in wind_direction.go) a reference 3 minutes old makes it
\* due and one 1 minute old does not.
C1_StalenessRule ==
    /\ maxTimeBetweenAggsForWindDirInterval("A", wdInterval5m) = 150
    /\ lastProbe.interval # "none" /\ probeLog[lastProbe.interval].kind = "faithful" =>
         LET i == lastProbe.interval
             out == probeLog[i].out
             stale == Elapsed(rev, lastProbe) > maxTimeBetweenAggsForWindDirInterval(rev, i)
         IN /\ out \in {"due", "skip"}
            /\ out = "due" <=> (~lastProbe.found \/ stale)
            /\ (i = wdInterval5m /\ lastProbe.found /\ Elapsed(rev, lastProbe) = 180)
                 => out = "due"
            /\ (i = wdInterval5m /\ lastProbe.found /\ Elapsed(rev, lastProbe) = 60)
                 => out = "skip"

\* The 5-minute probe found a point whose reference is 3 minutes old and
\* marked the interval due, after leaving the 15-minute interval not due.
C1_Witness ==
    /\ rev = "A"
    /\ lastProbe.interval = wdInterval5m
    /\ lastProbe.found
    /\ Elapsed(rev, lastProbe) = 180
    /\ probeLog[wdInterval5m] = [kind |-> "faithful", out |-> "due"]
    /\ probeLog[wdInterval15m] = [kind |-> "faithful", out |-> "skip"]

\* C2: in the three-tier revisions (wind_direction.go and the last revision of
\* the engine) the label of every aggregated interval is "VAR" when sd is above
\* the primary cutoff, the coarse 8-point label of the mean when sd is above
\* the secondary cutoff and at most the primary one, and the fine 16-point
\* label when sd is at most the secondary cutoff; at the cutoffs themselves
\* the label is the fine one (secondary) and the coarse one (primary).
C2_ThreeTiers ==
    rev \in {"A", "C"} =>
      \A i \in Intervals :
        wdMeanIntercardinalResultFieldName(i) \in DOMAIN fields =>
          LET sd == fields[wdStdDevResultFieldName(i)]
              mean == fields[wdMeanResultFieldName(i)]
              card == fields[wdMeanIntercardinalResultFieldName(i)]
              secondary == stdDevThresholdsForWindDirIntervalCardinalResult(rev, i)[1]
              primary == stdDevThresholdsForWindDirIntervalCardinalResult(rev, i)[2]
              coarse == Compass8[(((2 * mean + 45) \div 90) % 8) + 1]
              fine == Compass16[(((4 * mean + 45) \div 90) % 16) + 1]
          IN /\ secondary < primary
             /\ sd > primary => card = "VAR"
             /\ (secondary < sd /\ sd <= primary) => card = coarse
             /\ sd <= secondary => card = fine
             /\ sd = secondary => card = fine
             /\ sd = primary => card = coarse /\ card # "VAR"
             /\ (i = wdInterval1h /\ sd = 380) => card = fine
             /\ (i = wdInterval1h /\ sd = 381) => card = coarse
             /\ (i = wdInterval1h /\ sd = 431) => card = "VAR"

\* A run of wind_direction.go whose standard deviation is exactly the primary
\* cutoff of the 1-hour interval: coarse there, "VAR" for 6h, fine for 30m.
C2_Witness ==
    /\ rev = "A"
    /\ pc = "write"
    /\ wdStdDevResultFieldName(wdInterval1h) \in DOMAIN fields
    /\ fields[wdStdDevResultFieldName(wdInterval1h)] = 430
    /\ fields[wdMeanResultFieldName(wdInterval1h)] = 23
    /\ fields[wdMeanIntercardinalResultFieldName(wdInterval1h)] = "NE"
    /\ fields[wdMeanIntercardinalResultFieldName(wdInterval6h)] = "VAR"
    /\ fields[wdMeanIntercardinalResultFieldName(wdInterval30m)] = "NNE"

FieldNames(i) ==
    {wdMeanResultFieldName(i), wdStdDevResultFieldName(i),
     wdMeanIntercardinalResultFieldName(i)}

\* C3: whenever a due interval ends up with an empty bucket, it contributes
\* no output field and no output point and the run does not end in an error,
\* also when the fetch returned rows and every due bucket is empty.
C3_EmptyBucketIsSkipped ==
    (fetchLog.out = "data" /\ pc \in {"write", "done"}) =>
      \A i \in SeqToSet(intervalsTodo) :
        Len(intervalData[i]) = 0 =>
          /\ FieldNames(i) \cap DOMAIN fields = {}
          /\ \A k \in 1..Len(batch) : FieldNames(i) \cap DOMAIN batch[k].fields = {}
          /\ result \notin {"error", "panic"}

\* C4: when the write fails on every attempt of the retry budget, the run
\* returns success.
C4_WriteFailureSwallowed ==
    (/\ pc = "done"
     /\ Len(writeLog) = influxWriteRetries
     /\ \A k \in 1..Len(writeLog) : writeLog[k] # "ok")
    => result = "ok"

\* Both attempts were refused and the run is over, successfully.
C4_Witness ==
    /\ pc = "done"
    /\ attempts = influxWriteRetries
    /\ writeLog = <<"fail", "fail">>
    /\ agg = aggAtStart
    /\ result = "ok"

\* C5: an interval that a run found due and whose write failed on every
\* attempt, the store being unchanged since, is found due again and put on the
\* list by every later run, at whatever later time it starts.
C5_DueAgainAfterFailedWrite ==
    \A i \in pendingDue :
      probeLog[i].kind = "faithful" =>
        /\ probeLog[i].out = "due"
        /\ i \in SeqToSet(intervalsTodo)

\* The second run, still probing, has found an interval of the first run's
\* failed write due again.
C5_Witness ==
    /\ runs = 2
    /\ pc = "probe"
    /\ \E i \in pendingDue : probeLog[i] = [kind |-> "faithful", out |-> "due"]

AllSkipped == \A i \in Intervals : probeLog[i].out = "skip"

\* C6: when the planner finds no interval due, the run issues no fetch and
\* no write, leaves the destination store unchanged and returns success.
C6_NothingDueNothingDone ==
    AllSkipped =>
      /\ pc \in {"plan", "done"}
      /\ pc = "done" => result = "ok"
      /\ intervalsTodo = <<>>
      /\ fetchLog.count = 0
      /\ attempts = 0
      /\ writeLog = <<>>
      /\ batch = <<>>
      /\ agg = aggAtStart

\* A run that found nothing due has returned.
C6_Witness ==
    /\ AllSkipped
    /\ pc = "done"
    /\ result = "ok"
    /\ fetchLog = NoFetch

\* C7: the sample query is issued at most once per run; its range is the
\* duration of the widest due interval, so at least that of every due
\* interval; the due list is in the order 6h, 3h, 1h, 30m, 15m, 5m.
C7_FetchOnceWidest ==
    /\ fetchLog.count <= 1
    /\ \A j \in 1..Len(intervalsTodo) : \A k \in 1..Len(intervalsTodo) :
         j < k => windDirIntervalToDuration(intervalsTodo[j])
                    > windDirIntervalToDuration(intervalsTodo[k])
    /\ fetchLog.count = 1 =>
         /\ fetchLog.interval \in SeqToSet(intervalsTodo)
         /\ fetchLog.interval = intervalsTodo[1]
         /\ \A i \in SeqToSet(intervalsTodo) :
              InfluxQLDuration(fetchLog.interval) >= windDirIntervalToDuration(i)

\* The query went out once, with the range of the first of several due
\* intervals.
C7_Witness ==
    /\ fetchLog.count = 1
    /\ Len(intervalsTodo) >= 3
    /\ intervalsTodo[Len(intervalsTodo)] = wdInterval5m
    /\ fetchLog.interval = wdInterval1h

MalformedProbeKinds ==
    {"transport", "serverErr", "zeroResults", "twoResults", "twoSeries", "badFirstColumn"}
MalformedFetchKinds ==
    MalformedProbeKinds \cup {"wrongDirColumn", "wrongSpeedColumn"}

RunFailedBeforeAggregating ==
    /\ pc = "done"
    /\ result = "error"
    /\ fields = <<>>
    /\ batch = <<>>
    /\ attempts = 0

\* C8: a probe or a fetch that fails in transport or whose response is
\* malformed (a result count other than one, more than one series, a first
\* column that is not the time column, a data column of the wrong name or
\* position) ends the run with an error, with no aggregate computed and no
\* write submitted; such a probe response never decides due or not due.
C8_MalformedResponseIsFatal ==
    /\ \A i \in Intervals :
         probeLog[i].kind \in MalformedProbeKinds =>
           /\ probeLog[i].out \notin {"due", "skip"}
           /\ RunFailedBeforeAggregating
    /\ fetchLog.kind \in MalformedFetchKinds => RunFailedBeforeAggregating

BadRowDefects == {"badTime", "strDir", "badNumDir", "badNumSpeed"}

\* C9: a fetched row with an unparseable timestamp or a non-numeric angle (or
\* weight) ends the run with an error, wherever the row stands: nothing is
\* aggregated and no write is submitted.
C9_BadRowIsFatal ==
    (fetchLog.kind = "rowDefect" /\ fetchLog.defect \in BadRowDefects)
    => RunFailedBeforeAggregating

\* C10: whatever the store answers to a probe or to the fetch, the run ends
\* in success or in a returned error and never panics.
C10_NeverPanics == result # "panic"

\* C11: the tag map of every output point is the caller's tags united with
\* the aggregator identity: each caller tag is there with its value, and the
\* tag "aggregator" is there with the value ProductName/Version.
C11_PointTags ==
    (pc \in {"write", "done"} /\ Len(batch) > 0) =>
      /\ DOMAIN tags = DOMAIN qTags \cup {AggregatorKey}
      /\ \A k \in DOMAIN qTags : tags[k] = qTags[k]
      /\ tags[AggregatorKey] = AggregatorIdentity

\* The due intervals with a non-empty bucket, and the names of their fields.
Computed == {i \in SeqToSet(intervalsTodo) : Len(intervalData[i]) > 0}
ComputedNames == UNION {FieldNames(i) : i \in Computed}
BatchNames == UNION {DOMAIN batch[k].fields : k \in 1..Len(batch)}

\* The fields of the destination series that the run added or changed.
ChangedNames ==
    {f \in UNION {DOMAIN agg[t] : t \in DOMAIN agg} :
        \E t \in DOMAIN agg :
            /\ f \in DOMAIN agg[t]
            /\ \/ t \notin DOMAIN aggAtStart
               \/ f \notin DOMAIN aggAtStart[t]
               \/ agg[t][f] # aggAtStart[t][f]}

WriteApplied == \E k \in 1..Len(writeLog) : writeLog[k] \in {"ok", "lost", "partial"}

\* C12: the fields a run writes are exactly the mean, stddev and
\* mean_intercardinal fields of each due interval with a non-empty bucket;
\* nothing is written for the other intervals, whose stored aggregates the
\* run leaves as they were.
C12_FieldsExactly ==
    /\ \A t \in DOMAIN aggAtStart :
         /\ t \in DOMAIN agg
         /\ \A f \in DOMAIN aggAtStart[t] : f \in DOMAIN agg[t]
    /\ attempts = 0 => ChangedNames = {}
    /\ (fetchLog.out = "data" /\ (pc = "write" \/ attempts > 0)) =>
         /\ BatchNames = ComputedNames
         /\ \A i \in Computed : Cardinality(FieldNames(i)) = 3
         /\ ChangedNames \subseteq ComputedNames
         /\ (\A k \in 1..Len(writeLog) : writeLog[k] = "fail") => ChangedNames = {}
         /\ (writeLog # <<>> /\ writeLog[Len(writeLog)] = "ok") =>
              ChangedNames = ComputedNames

\* A successful run of wind_direction.go that left the stored 6h aggregate
\* alone (not due), skipped the empty 5m bucket and wrote the 30m fields.
C12_Witness ==
    /\ rev = "A"
    /\ pc = "done"
    /\ writeLog # <<>> /\ writeLog[Len(writeLog)] = "ok"
    /\ probeLog[wdInterval6h].out = "skip"
    /\ probeLog[wdInterval5m].out = "due"
    /\ Len(intervalData[wdInterval5m]) = 0
    /\ wdInterval30m \in Computed
    /\ wdMeanResultFieldName(wdInterval30m) \in ChangedNames
    /\ wdMeanResultFieldName(wdInterval5m) \notin ChangedNames

\* The stamps of the stored points that hold the interval's mean field.
StampsOf(store, i) == {t \in DOMAIN store : wdMeanResultFieldName(i) \in DOMAIN store[t]}

\* The time of the run whose write put the stamp on the interval's point.
RunTimeOf(r, stamp, i) ==
    CHOOSE R \in {stamp, stamp + (windDirIntervalToDuration(i) \div 2)} :
        PointTime(r, R, i) = stamp

\* C13: the write path and the staleness read use the same reference
\* convention, so that after a run at time R wrote an interval's aggregate, a
\* later run at time T (no other write in between) finds the interval not due
\* when T - R <= max staleness and due when T - R > max staleness; the range
\* of the probe never hides a point that is still fresh.
C13_SameConvention ==
    /\ \A i \in Intervals : ReferenceTime(rev, PointTime(rev, now, i), i) = now
    /\ (/\ lastProbe.interval # "none"
        /\ probeLog[lastProbe.interval].kind = "faithful"
        /\ StampsOf(aggAtStart, lastProbe.interval) # {}) =>
         LET i == lastProbe.interval
             R == RunTimeOf(rev, MaxOf(StampsOf(aggAtStart, i)), i)
             T == lastProbe.at
             fresh == T - R <= maxTimeBetweenAggsForWindDirInterval(rev, i)
         IN /\ fresh => probeLog[i].out = "skip"
            /\ ~fresh => probeLog[i].out = "due"

\* The -tags string does not parse, or (B) the angle field is given without
\* the magnitude field.
ConfigInError ==
    \/ ParseTags(tagsIn).err
    \/ rev = "B" /\ windDirectionField # "" /\ windSpeedField = ""

\* C14: with a configuration error the process ends before any I/O with the
\* store: no ping, no query and no write happens, and the engine is not called.
C14_ConfigErrorsBeforeIO ==
    ConfigInError =>
      /\ mpc # "engine"
      /\ pc = "idle"
      /\ lastProbe = NoLastProbe
      /\ fetchLog = NoFetch
      /\ attempts = 0
      /\ ~pinged

\* The (time, field, value) triples of a store and of a batch of points.
StoreTriples(store) ==
    UNION {{<<t, f, store[t][f]>> : f \in DOMAIN store[t]} : t \in DOMAIN store}
BatchTriples(points) ==
    UNION {{<<points[k].time, f, points[k].fields[f]>> : f \in DOMAIN points[k].fields} :
           k \in 1..Len(points)}

\* The older of the two stores the overlapping runs started from.
StoreBeforeRuns ==
    IF parked.pc = "idle" \/ DOMAIN parked.aggAtStart \subseteq DOMAIN aggAtStart
    THEN (IF pc = "idle" THEN agg ELSE IF parked.pc = "idle" THEN aggAtStart
          ELSE parked.aggAtStart)
    ELSE aggAtStart

\* The store holds one value per (time, field), each of them either there
\* before the runs or computed by one of the two runs.
C15_StoreConsistent ==
    StoreTriples(agg) \subseteq
        StoreTriples(StoreBeforeRuns) \cup BatchTriples(batch) \cup BatchTriples(parked.batch)

\* C15: two overlapping invocations take no lock, and in every interleaving of
\* their probes, fetches and writes both complete without error, and the
\* store stays consistent: a write at an identical key overwrites, and each
\* stored aggregate is one that a single run computed.
C15_OverlappingRuns ==
    /\ result \notin {"error", "panic"}
    /\ parked.result \notin {"error", "panic"}
    /\ C15_StoreConsistent

\* The rows the fetch of the run returned (the source series and the clock
\* do not change between the fetch and the end of the write).
FetchedRows == FetchRows(rev, src, FetchInterval(intervalsTodo), clock - skew)

\* The fetched samples with now - duration <= t <= now, in fetch order.
WindowOf(i) ==
    LET sel == SelectSeq(FetchedRows,
                         LAMBDA row : /\ now - windDirIntervalToDuration(i) <= row[1].v
                                      /\ row[1].v <= now)
    IN [k \in 1..Len(sel) |-> DataPoint(rev, sel[k])]

\* C16: the bucket of every due interval holds exactly the fetched samples
\* with now - duration <= t <= now, oldest first; no sample later than now or
\* older than now - duration is admitted.
C16_BucketIsWindow ==
    (pc \in {"aggregate", "write"} /\ fetchLog.kind = "faithful" /\ fetchLog.out = "data") =>
      \A i \in SeqToSet(intervalsTodo) : intervalData[i] = WindowOf(i)

\* C17: the batch is written with a bounded number of attempts: at most
\* influxWriteRetries calls of the store's write per run, none after the
\* first acknowledged one, every attempt with the same batch, so that after
\* refused, lost or partially applied attempts followed by an acknowledged
\* one the store is what a single acknowledged write would have left.
C17_BoundedRetries ==
    /\ attempts <= influxWriteRetries
    /\ Len(writeLog) = attempts
    /\ \A k \in 1..(Len(writeLog) - 1) : writeLog[k] # "ok"
    /\ (pc = "write" /\ attempts > 0) => writeLog[attempts] # "ok"
    /\ (pc = "write" /\ attempts > 0) =>
         \E done \in {<<>>, SubSeq(batch, 1, Len(batch) - 1), batch} :
             agg = ApplyPoints(aggAtStart, done)
    /\ (attempts > 0 /\ writeLog[attempts] = "ok") =>
         /\ pc = "done"
         /\ agg = ApplyPoints(aggAtStart, batch)

\* A run whose first attempt was refused after the store had applied a part
\* of the batch, and whose second attempt was acknowledged.
C17_Witness ==
    /\ pc = "done"
    /\ writeLog = <<"partial", "ok">>
    /\ Len(batch) > 1
    /\ agg # aggAtStart
    /\ agg = ApplyPoints(aggAtStart, batch)

\* The standard deviation from which the revision reports "VAR".
VarCutoff(r, interval) ==
    IF r = "B" THEN varThresholdForWindDirInterval(interval)
    ELSE stdDevThresholdsForWindDirIntervalCardinalResult(r, interval)[2]

\* C18: in the table of the revision that classified the aggregates of a run,
\* a shorter window has a VAR cutoff at least as high as a longer one, and the
\* secondary cutoff of an interval is strictly below its primary cutoff; so
\* for one standard deviation, a shorter window is classified "VAR" only if
\* every longer one is.
C18_TableMonotone ==
    (pc \in {"write", "done"} /\ DOMAIN fields # {}) =>
      /\ \A a, b \in Intervals :
            windDirIntervalToDuration(a) < windDirIntervalToDuration(b) =>
              VarCutoff(rev, a) >= VarCutoff(rev, b)
      /\ rev # "B" =>
            \A i \in Intervals :
              stdDevThresholdsForWindDirIntervalCardinalResult(rev, i)[1]
                < stdDevThresholdsForWindDirIntervalCardinalResult(rev, i)[2]
      /\ \A a, b \in Computed :
            (/\ windDirIntervalToDuration(a) < windDirIntervalToDuration(b)
             /\ fields[wdMeanIntercardinalResultFieldName(b)] # "VAR") =>
              fields[wdMeanIntercardinalResultFieldName(a)] # "VAR"

=============================================================================
